---- MODULE Spec2Model ----
(***************************************************************************)
(* A model of the scene-video compositor, generateStoryVideo in            *)
(* src/services/videoRecorder.ts.                                          *)
(*                                                                         *)
(* The driver is one async function.  Each action below is one piece of    *)
(* its code; the program counter pc names the place the driver is at.      *)
(* The places in AwaitPcs are the await expressions of the code: there the *)
(* driver is suspended and the platform (image decoder, audio decoder,     *)
(* timers, the recorder's event queue) delivers the awaited result.        *)
(*                                                                         *)
(* Time is audioCtx.currentTime in tenths of a second.  The reading is     *)
(* constant while the driver runs and advances by a step of ClockSteps     *)
(* while it is suspended (and the context is running).                     *)
(*                                                                         *)
(* Percent values passed to onProgress are kept exactly, as numerators     *)
(* over the denominator ProgressDen (the code computes (i / n) * 10 and    *)
(* 10 + (i / n) * 85).                                                     *)
(***************************************************************************)
EXTENDS Integers, Sequences, FiniteSets, TLC

\* ------------------------------------------------------------------ bounds
MaxScenes == 2

\* How far audioCtx.currentTime may advance during one suspension (0.1 s).
ClockSteps == {0, 5, 10}

\* Sizes (bytes) the Blob of a dataavailable event may have.
ChunkSizes == {0, 7}

\* Durations (0.1 s) a decodable narration buffer may have.
AudioDurations == {0, 20}

\* The longest narration (in code units) drawSubtitles is given.
MaxTextLen == 3

\* The code units a narration is made of, and the widths one may have.
Chars == {"a", "b"}
CharWidths == {0, 300, 700, 1300}

\* width = isVertical ? 720 : 1280
CanvasWidths == {720, 1280}

\* ---------------------------------------------------------------- constants
FPS == 60
Padding == 24
FallbackDuration == 30
TransitionDuration == 8
FadeDuration == 15
HoldDelay == 2

\* What scene.audioData may be: absent, bytes decodeAudioData rejects, or
\* bytes that decode to a buffer of the given duration.
AudioInputs ==
    {[present |-> FALSE, decodable |-> FALSE, seconds |-> 0],
     [present |-> TRUE, decodable |-> FALSE, seconds |-> 0]}
    \cup {[present |-> TRUE, decodable |-> TRUE, seconds |-> d] : d \in AudioDurations}

\* A scene of the story: whether its imageData decodes, and its audioData.
SceneInputs == [imageOk : BOOLEAN, audio : AudioInputs]

RECURSIVE SeqsOf(_, _)
SeqsOf(S, k) ==
    IF k = 0 THEN {<<>>}
    ELSE {Append(s, x) : s \in SeqsOf(S, k - 1), x \in S}

Stories == UNION {SeqsOf(SceneInputs, k) : k \in 0..MaxScenes}

VARIABLES
    scenes,          \* story.scenes (the input)
    brokenDrawThrows,\* whether this platform's drawImage throws on a broken image
    decodeStuck,     \* whether a decodeAudioData promise of this run never settles
    stopThrows,      \* whether this platform's recorder.stop() throws on an inactive recorder
    pc,              \* where the driver is
    i,               \* the loop index of the preload loop, then of the scene loop
    recorderState,   \* recorder.state
    startCalls,      \* number of recorder.start() calls that returned
    stopCalls,       \* number of recorder.stop() calls
    stopEventPending,\* the recorder's stop event is queued, not yet dispatched
    onstopInstalled, \* recorder.onstop has been assigned
    audioCtxState,   \* audioCtx.state
    closeCalls,      \* number of audioCtx.close() calls
    currentTime,     \* audioCtx.currentTime
    loadedImages,    \* the loadedImages array: "ok" or "broken" per element
    audioBuffer,     \* the scene's decoded buffer: Null, or <<its duration>>
    duration,        \* per scene, the duration its loop uses: Null before, then <<d>>
    usedFallback,    \* per scene, whether the 3.0 literal was taken
    source,          \* per scene, the narration source: "none", "playing", "stopped"
    segStart,        \* sceneStartTime / transStartTime / fadeStartTime
    canvas,          \* what the last paint left on the canvas
    framesPainted,   \* per scene, whether its playback loop painted a frame
    decodeStarted,   \* per scene, whether decodeAudioData was called
    loopExited,      \* per scene, the loops that have exited: "none","play","trans"
    progressLog,     \* the percent values passed to onProgress (numerators)
    phaseLog,        \* the phases the render has entered, in order
    errorRaised,     \* the exception thrown inside the try block, or "none"
    outcome,         \* "pending", "resolved", "rejected"
    rejectedWith,    \* the error the returned promise rejected with
    blobs,           \* number of Blobs constructed for the caller
    chunks,          \* the chunks array: the size of each Blob pushed
    dataDelivered,   \* the size of each dataavailable event dispatched
    blobParts,       \* the parts the caller's Blob was built from
    scheduled,       \* the timed segments the driver has set up: <<kind, length>>
    elapsedPainted,  \* elapsed / tElapsed of the last frame painted in the running loop
    currentScale,    \* currentScale of that frame, times 100 * duration (scene loop)
    text,            \* drawSubtitles: the narration, as its UTF-16 code units
    w,               \* drawSubtitles: the canvas width
    charWidth,       \* the width measureText gives each code unit
    lines,           \* drawSubtitles: the lines array
    currentLine,     \* drawSubtitles: the line being filled
    wordIdx,         \* drawSubtitles: the index i of its for loop
    wpc,             \* where drawSubtitles is: "off", "start", "loop", "done"
    currentIndex,    \* StoryPlayer: the currentIndex state
    isPlaying,       \* StoryPlayer: the isPlaying state
    isExporting,     \* StoryPlayer: the isExporting state
    rendered,        \* StoryPlayer: the state values the last render's closures hold
    sourceNodeRef,   \* StoryPlayer: sourceNodeRef.current
    previewCtxState, \* StoryPlayer: audioContextRef.current.state
    playAudioCalls,  \* StoryPlayer: each playAudio call: where it is, and its currentScene
    nextPlay,        \* StoryPlayer: number of playAudio calls made
    previewSource,   \* StoryPlayer: the source node each playAudio call created
    endedQueued,     \* StoryPlayer: sources whose ended event is queued
    exportsInFlight, \* StoryPlayer: generateStoryVideo invocations not yet settled
    exportClicks,    \* StoryPlayer: number of handleExportVideo calls that went on
    downloads        \* StoryPlayer: number of videos handed to the browser

vars == <<scenes, brokenDrawThrows, decodeStuck, stopThrows, pc, i, recorderState, startCalls, stopCalls,
          stopEventPending, onstopInstalled, audioCtxState, closeCalls,
          currentTime, loadedImages, audioBuffer, duration, usedFallback,
          source, segStart, canvas, framesPainted, decodeStarted, loopExited,
          progressLog, phaseLog, errorRaised, outcome, rejectedWith, blobs,
          chunks, dataDelivered, blobParts, scheduled,
          elapsedPainted, currentScale,
          text, w, charWidth, lines, currentLine, wordIdx, wpc,
          currentIndex, isPlaying, isExporting, rendered, sourceNodeRef,
          previewCtxState, playAudioCalls, nextPlay, previewSource,
          endedQueued, exportsInFlight, exportClicks, downloads>>

\* null / not yet assigned; a value v that is there is <<v>>.
Null == <<>>
Val(x) == x[1]

n == Len(scenes)
SceneIdx == 0..(n - 1)

\* story.scenes[k], with the code's 0-based index.
Scene(k) == scenes[k + 1]

\* loadedImages[k]: "undefined" past the end of the array, as in JavaScript.
Img(k) == IF k >= 0 /\ k < Len(loadedImages) THEN loadedImages[k + 1] ELSE "undefined"

\* The await expressions of generateStoryVideo.
AwaitPcs == {"imgWait", "resumeWait", "decodeWait", "sceneWait", "transWait",
             "outroWait", "holdWait", "stopWait"}

\* ------------------------------------------------------------------ clock
\* The clock readings possible after one suspension of the driver.
ClockAfterWait ==
    IF audioCtxState = "running"
    THEN {currentTime + dt : dt \in ClockSteps}
    ELSE {currentTime}

\* ---------------------------------------------------------------- progress
ProgressDen == IF n = 0 THEN 1 ELSE n

\* Mutant: the preload reports its share of the images as a percentage.
PreloadPercentOfHundred(k) == 100 * k

\* (i / story.scenes.length) * 10
PreloadPercent(k) == 10 * k

\* Mutant: the 10 of the preload band is not added.
ScenePercentNoOffset(k) == 85 * k

\* 10 + (i / story.scenes.length) * 85
ScenePercent(k) == 10 * ProgressDen + 85 * k

\* onProgress(99, ...)
OutroPercent == 99 * ProgressDen

\* Mutant: drawKenBurns returns at once when it is given no image.
DrawKenBurnsGuarded(img) ==
    CASE img = "undefined" -> "nothing"
      [] img = "broken" -> IF brokenDrawThrows THEN "InvalidStateError" ELSE "nothing"
      [] OTHER -> "drawn"

\* ------------------------------------------------------------------ paint
\* drawKenBurns: reading img.width of undefined is a TypeError; drawImage of
\* an image in the broken state throws InvalidStateError on platforms that
\* check the image first and draws nothing (the rectangle is NaN) on others.
DrawKenBurns(img) ==
    CASE img = "undefined" -> "TypeError"
      [] img = "broken" -> IF brokenDrawThrows THEN "InvalidStateError" ELSE "nothing"
      [] OTHER -> "drawn"

IsError(r) == r \in {"TypeError", "InvalidStateError"}

\* drawCinematicTransition: drawKenBurns of imgA, then of imgB.
DrawCinematicTransition(imgA, imgB) ==
    IF IsError(DrawKenBurns(imgA)) THEN DrawKenBurns(imgA)
    ELSE IF IsError(DrawKenBurns(imgB)) THEN DrawKenBurns(imgB)
    ELSE "drawn"

\* ------------------------------------------------------------------- Init
\* The state after construction, but for what the decoder will do.
DriverInit ==
    /\ scenes \in Stories
    /\ brokenDrawThrows \in BOOLEAN
    /\ pc = "init"
    /\ i = 0
    /\ recorderState = "inactive"
    /\ startCalls = 0
    /\ stopCalls = 0
    /\ stopEventPending = FALSE
    /\ onstopInstalled = FALSE
    /\ audioCtxState \in {"suspended", "running"}
    /\ closeCalls = 0
    /\ currentTime = 0
    /\ loadedImages = <<>>
    /\ audioBuffer = Null
    /\ duration = [k \in SceneIdx |-> Null]
    /\ usedFallback = [k \in SceneIdx |-> FALSE]
    /\ source = [k \in SceneIdx |-> "none"]
    /\ segStart = 0
    /\ canvas = <<"black">>
    /\ framesPainted = [k \in SceneIdx |-> FALSE]
    /\ decodeStarted = [k \in SceneIdx |-> FALSE]
    /\ loopExited = [k \in SceneIdx |-> "none"]
    /\ progressLog = <<>>
    /\ phaseLog = <<>>
    /\ errorRaised = "none"
    /\ outcome = "pending"
    /\ rejectedWith = "none"
    /\ blobs = 0
    /\ chunks = <<>>
    /\ dataDelivered = <<>>
    /\ blobParts = <<>>
    /\ scheduled = <<>>
    /\ elapsedPainted = Null
    /\ currentScale = Null

\* JavaScript's undefined as a line: fillText draws it as the text
\* "undefined".
Undefined == <<"undefined">>

\* drawSubtitles is not being followed step by step.
WrapIdle ==
    /\ text = <<>>
    /\ w = 1280
    /\ charWidth = [c \in Chars |-> 0]
    /\ lines = <<>>
    /\ currentLine = <<>>
    /\ wordIdx = 0
    /\ wpc = "off"

\* The bounds of the preview: the playAudio calls and the export clicks
\* followed, and the scenes of the story on display.
MaxPlays == 2
MaxExports == 2
PlayIds == 1..MaxPlays
PlayerScenes == {0, 1}
LastIndex == CHOOSE s \in PlayerScenes : \A t \in PlayerScenes : t <= s

\* StoryPlayer as mounted: the first scene on display, nothing playing, no
\* export running, and the shared AudioContext suspended or running.
PlayerMounted ==
    /\ currentIndex = 0
    /\ isPlaying = FALSE
    /\ isExporting = FALSE
    /\ rendered = [currentIndex |-> 0, isPlaying |-> FALSE, isExporting |-> FALSE]
    /\ sourceNodeRef = Null
    /\ playAudioCalls = [id \in PlayIds |-> [pc |-> "none", scene |-> 0]]
    /\ nextPlay = 0
    /\ previewSource = [id \in PlayIds |-> "none"]
    /\ endedQueued = {}
    /\ exportsInFlight = 0
    /\ exportClicks = 0
    /\ downloads = 0

\* StoryPlayer is not being followed.
PlayerIdle == PlayerMounted /\ previewCtxState = "running"

\* Every decodeAudioData promise settles.
Init == DriverInit /\ decodeStuck = FALSE /\ stopThrows = FALSE /\ WrapIdle /\ PlayerIdle

\* The recorder may fail during the render, and recorder.stop() on the
\* recorder it leaves inactive throws InvalidStateError on platforms that
\* follow the older MediaRecorder rule, and returns on the others.
InitRecorderFault ==
    DriverInit /\ decodeStuck = FALSE /\ stopThrows \in BOOLEAN /\ WrapIdle /\ PlayerIdle

\* The decodeAudioData promises of the run may be ones that never settle.
InitStuck ==
    DriverInit /\ decodeStuck \in BOOLEAN /\ stopThrows = FALSE /\ WrapIdle /\ PlayerIdle

\* One call of drawSubtitles, with any narration, either canvas width and
\* any widths of the code units; the driver is left aside.
InitWrap ==
    /\ DriverInit
    /\ scenes = <<>>
    /\ brokenDrawThrows = FALSE
    /\ decodeStuck = FALSE
    /\ stopThrows = FALSE
    /\ audioCtxState = "running"
    /\ text \in UNION {SeqsOf(Chars, k) : k \in 0..MaxTextLen}
    /\ w \in CanvasWidths
    /\ charWidth \in [Chars -> CharWidths]
    /\ lines = <<>>
    /\ currentLine = <<>>
    /\ wordIdx = 0
    /\ wpc = "start"
    /\ PlayerIdle

\* The StoryPlayer component on a story of two narrated scenes, with the
\* shared AudioContext suspended or running; the render driver and
\* drawSubtitles are left aside.
InitPlayer ==
    /\ DriverInit
    /\ scenes = <<>>
    /\ brokenDrawThrows = FALSE
    /\ decodeStuck = FALSE
    /\ stopThrows = FALSE
    /\ audioCtxState = "running"
    /\ WrapIdle
    /\ PlayerMounted
    /\ previewCtxState \in {"suspended", "running"}

\* ------------------------------------------------------------ variable groups
inputVars == <<scenes, brokenDrawThrows, decodeStuck, stopThrows>>
recVars == <<recorderState, startCalls, stopCalls, stopEventPending, onstopInstalled>>
ctxVars == <<audioCtxState, closeCalls>>
sceneVars == <<audioBuffer, duration, usedFallback, source, framesPainted,
               decodeStarted, loopExited>>
resultVars == <<errorRaised, outcome, rejectedWith, blobs>>
chunkVars == <<chunks, dataDelivered, blobParts>>
frameVars == <<elapsedPainted, currentScale>>
wrapVars == <<text, w, charWidth, lines, currentLine, wordIdx, wpc>>
refVars == <<sourceNodeRef, previewSource, endedQueued>>
exportVars == <<isExporting, exportsInFlight, exportClicks, downloads>>
playerVars == <<currentIndex, isPlaying, rendered, previewCtxState,
                playAudioCalls, nextPlay, refVars, exportVars>>
driverVars == <<pc, i, recVars, ctxVars, currentTime, loadedImages, sceneVars,
                segStart, canvas, progressLog, phaseLog, resultVars, chunkVars,
                scheduled, frameVars>>

\* An exception inside the try block: the catch block logs it and rethrows,
\* and control goes to the finally block.
Throw(err) ==
    /\ errorRaised' = err
    /\ phaseLog' = Append(phaseLog, <<"Failed">>)
    /\ pc' = "finally"
    /\ UNCHANGED <<outcome, rejectedWith, blobs>>

\* ------------------------------------------------- recorder.start(), line 47
\* Canvas, audio context, capture stream and recorder are constructed, then
\* recorder.start() is called, outside the try block.
RecorderStart ==
    /\ pc = "init"
    /\ \/ /\ recorderState' = "recording"
          /\ startCalls' = startCalls + 1
          /\ phaseLog' = Append(phaseLog, <<"Preloading">>)
          /\ pc' = "preload"
          /\ UNCHANGED resultVars
       \/ /\ errorRaised' = "StartError"
          /\ outcome' = "rejected"
          /\ rejectedWith' = "StartError"
          /\ phaseLog' = Append(phaseLog, <<"Failed">>)
          /\ pc' = "done"
          /\ UNCHANGED <<recorderState, startCalls, blobs>>
    /\ UNCHANGED <<inputVars, playerVars, wrapVars, frameVars, scheduled, chunkVars, i, stopCalls, stopEventPending, onstopInstalled,
                   ctxVars, currentTime, loadedImages, sceneVars, segStart,
                   canvas, progressLog>>

\* --------------------------------------------------- preload, lines 50-61
\* One iteration of the preload loop up to its await: report progress and
\* start loading the image.
PreloadIter ==
    /\ pc = "preload"
    /\ i < n
    /\ progressLog' = Append(progressLog, PreloadPercent(i))
    /\ pc' = "imgWait"
    /\ UNCHANGED <<inputVars, playerVars, wrapVars, frameVars, scheduled, chunkVars, i, recVars, ctxVars, currentTime, loadedImages,
                   sceneVars, segStart, canvas, phaseLog, resultVars>>

\* Mutant: an image that failed to load is not pushed.
ImageSettledSkipsBroken ==
    /\ pc = "imgWait"
    /\ loadedImages' = IF Scene(i).imageOk THEN Append(loadedImages, "ok")
                       ELSE loadedImages
    /\ i' = i + 1
    /\ currentTime' \in ClockAfterWait
    /\ pc' = "preload"
    /\ UNCHANGED <<inputVars, playerVars, wrapVars, frameVars, scheduled, chunkVars, recVars, ctxVars, sceneVars, segStart, canvas,
                   progressLog, phaseLog, resultVars>>

\* img.onload or img.onerror resolves the awaited promise; either way the
\* image element is pushed.
ImageSettled ==
    /\ pc = "imgWait"
    /\ loadedImages' = Append(loadedImages,
                              IF Scene(i).imageOk THEN "ok" ELSE "broken")
    /\ i' = i + 1
    /\ currentTime' \in ClockAfterWait
    /\ pc' = "preload"
    /\ UNCHANGED <<inputVars, playerVars, wrapVars, frameVars, scheduled, chunkVars, recVars, ctxVars, sceneVars, segStart, canvas,
                   progressLog, phaseLog, resultVars>>

\* Mutant: the driver goes on to the scenes without resuming the context.
PreloadExitNoResume ==
    /\ pc = "preload"
    /\ i >= n
    /\ pc' = "scene"
    /\ i' = 0
    /\ UNCHANGED <<inputVars, playerVars, wrapVars, frameVars, scheduled, chunkVars, recVars, ctxVars, currentTime, loadedImages,
                   sceneVars, segStart, canvas, progressLog, phaseLog, resultVars>>

\* The preload loop is over: lines 63-66, resume the context if suspended.
PreloadExit ==
    /\ pc = "preload"
    /\ i >= n
    /\ IF audioCtxState = "suspended"
       THEN pc' = "resumeWait" /\ i' = i
       ELSE pc' = "scene" /\ i' = 0
    /\ UNCHANGED <<inputVars, playerVars, wrapVars, frameVars, scheduled, chunkVars, recVars, ctxVars, currentTime, loadedImages,
                   sceneVars, segStart, canvas, progressLog, phaseLog, resultVars>>

\* await audioCtx.resume() settles.
ResumeSettled ==
    /\ pc = "resumeWait"
    /\ audioCtxState' = "running"
    /\ i' = 0
    /\ pc' = "scene"
    /\ UNCHANGED <<inputVars, playerVars, wrapVars, frameVars, scheduled, chunkVars, recVars, closeCalls, currentTime, loadedImages,
                   sceneVars, segStart, canvas, progressLog, phaseLog, resultVars>>

\* ------------------------------------------------ scene loop, lines 71-165
\* Mutant: the test for a next image compares with null, which undefined
\* past the end of the array passes.
NextImgNotNull(k) == TRUE

\* const nextImg = loadedImages[i + 1]; if (nextImg): an image element is
\* truthy whether it loaded or not, undefined past the end is not.
NextImgExists(k) == Img(k + 1) # "undefined"

\* Mutant: audioBuffer.duration || 3.0, which takes the fallback for a
\* decoded buffer of duration 0.
SceneDurationTruthy(buf) ==
    IF buf # Null /\ Val(buf) # 0 THEN Val(buf) ELSE FallbackDuration

\* Mutant: no fallback value for a scene without a decoded buffer.
SceneDurationNoFallback(buf) == IF buf # Null THEN Val(buf) ELSE 0

\* const duration = audioBuffer ? audioBuffer.duration : 3.0  (line 89)
SceneDuration(buf) == IF buf # Null THEN Val(buf) ELSE FallbackDuration

\* Mutant: elapsed is the clock reading itself, not the time since the
\* segment's start reading.
ElapsedSinceContextStart == currentTime

\* now - sceneStartTime (and the same for the other two loops)
Elapsed == currentTime - segStart

\* The head of one scene iteration, lines 72-82: report progress and, if
\* the scene has audio bytes, call decodeAudioData and await it.
SceneBegin ==
    /\ pc = "scene"
    /\ i < n
    /\ progressLog' = Append(progressLog, ScenePercent(i))
    /\ phaseLog' = Append(phaseLog, <<"ScenePlayback", i>>)
    /\ audioBuffer' = Null
    /\ IF Scene(i).audio.present
       THEN /\ decodeStarted' = [decodeStarted EXCEPT ![i] = TRUE]
            /\ pc' = "decodeWait"
       ELSE /\ decodeStarted' = decodeStarted
            /\ pc' = "scenePrep"
    /\ UNCHANGED <<inputVars, playerVars, wrapVars, frameVars, scheduled, chunkVars, i, recVars, ctxVars, currentTime, loadedImages,
                   duration, usedFallback, source, framesPainted, loopExited,
                   segStart, canvas, resultVars>>

\* Mutant: the decode call is not wrapped in try/catch, so a decode failure
\* leaves the try block of the render.
DecodeSettledUncaught ==
    /\ pc = "decodeWait"
    /\ ~decodeStuck
    /\ currentTime' \in ClockAfterWait
    /\ IF Scene(i).audio.decodable
       THEN /\ audioBuffer' = <<Scene(i).audio.seconds>>
            /\ pc' = "scenePrep"
            /\ UNCHANGED <<phaseLog, resultVars>>
       ELSE /\ audioBuffer' = Null
            /\ Throw("DecodeError")
    /\ UNCHANGED <<inputVars, playerVars, wrapVars, frameVars, scheduled, chunkVars, i, recVars, ctxVars, loadedImages, duration,
                   usedFallback, source, framesPainted, decodeStarted,
                   loopExited, segStart, canvas, progressLog>>

\* decodeAudioData settles: a buffer, or an exception that the catch block
\* of lines 83-85 logs, leaving audioBuffer null.
DecodeSettled ==
    /\ pc = "decodeWait"
    /\ ~decodeStuck
    /\ audioBuffer' = IF Scene(i).audio.decodable
                      THEN <<Scene(i).audio.seconds>>
                      ELSE Null
    /\ currentTime' \in ClockAfterWait
    /\ pc' = "scenePrep"
    /\ UNCHANGED <<inputVars, playerVars, wrapVars, frameVars, scheduled, chunkVars, i, recVars, ctxVars, loadedImages, duration,
                   usedFallback, source, framesPainted, decodeStarted,
                   loopExited, segStart, canvas, progressLog, phaseLog,
                   resultVars>>

\* Lines 88-100: the duration, the narration source, the start reading.
ScenePrepare ==
    /\ pc = "scenePrep"
    /\ duration' = [duration EXCEPT ![i] = <<SceneDuration(audioBuffer)>>]
    /\ usedFallback' = [usedFallback EXCEPT ![i] = (audioBuffer = Null)]
    /\ source' = [source EXCEPT ![i] = IF audioBuffer # Null THEN "playing" ELSE "none"]
    /\ segStart' = currentTime
    /\ scheduled' = Append(scheduled, <<"scene", SceneDuration(audioBuffer)>>)
    /\ pc' = "sceneLoop"
    /\ UNCHANGED <<inputVars, playerVars, wrapVars, frameVars, chunkVars, i, recVars, ctxVars, currentTime, loadedImages,
                   audioBuffer, framesPainted, decodeStarted, loopExited,
                   canvas, progressLog, phaseLog, resultVars>>

\* Mutant: every scene zooms in, whatever its index.
CurrentScaleNoAlternation(k, el, dur) == 110 * dur + 15 * el

\* Lines 112-121: progress = elapsed / duration and currentScale =
\* 1.1 + 0.15 * progress for an even scene index, (1.1 + 0.15) - 0.15 *
\* progress for an odd one; the value is kept exactly, times 100 * duration.
CurrentScale(k, el, dur) ==
    IF k % 2 = 0
    THEN 110 * dur + 15 * el
    ELSE 125 * dur - 15 * el

\* Mutant: the paint calls of a scene frame are wrapped in a try/catch of
\* their own, which logs the error and lets the loop go on.
SceneFrameCaughtPerFrame ==
    /\ pc = "sceneLoop"
    /\ ~(currentTime - segStart >= Val(duration[i]))
    /\ LET r == DrawKenBurns(Img(i)) IN
       IF IsError(r)
       THEN /\ canvas' = <<"cleared">>
            /\ framesPainted' = framesPainted
            /\ UNCHANGED frameVars
       ELSE /\ canvas' = <<"scene", i, r, "subtitles">>
            /\ framesPainted' = [framesPainted EXCEPT ![i] = TRUE]
            /\ elapsedPainted' = <<currentTime - segStart>>
            /\ currentScale' = <<CurrentScale(i, currentTime - segStart, Val(duration[i]))>>
    /\ pc' = "sceneWait"
    /\ UNCHANGED <<phaseLog, resultVars>>
    /\ UNCHANGED <<inputVars, playerVars, wrapVars, scheduled, chunkVars, i, recVars, ctxVars, currentTime, loadedImages,
                   audioBuffer, duration, usedFallback, source, decodeStarted,
                   loopExited, segStart, progressLog>>

\* One pass of the main scene loop that paints, lines 104-135.
SceneFrame ==
    /\ pc = "sceneLoop"
    /\ ~(Elapsed >= Val(duration[i]))
    /\ LET r == DrawKenBurns(Img(i)) IN
       IF IsError(r)
       THEN /\ canvas' = <<"cleared">>
            /\ framesPainted' = framesPainted
            /\ UNCHANGED frameVars
            /\ Throw(r)
       ELSE /\ canvas' = <<"scene", i, r, "subtitles">>
            /\ framesPainted' = [framesPainted EXCEPT ![i] = TRUE]
            /\ elapsedPainted' = <<Elapsed>>
            /\ currentScale' = <<CurrentScale(i, Elapsed, Val(duration[i]))>>
            /\ pc' = "sceneWait"
            /\ UNCHANGED <<phaseLog, resultVars>>
    /\ UNCHANGED <<inputVars, playerVars, wrapVars, scheduled, chunkVars, i, recVars, ctxVars, currentTime, loadedImages,
                   audioBuffer, duration, usedFallback, source, decodeStarted,
                   loopExited, segStart, progressLog>>

\* Mutant: the driver goes on to the next scene without running the
\* transition loop.
SceneLoopExitNoTransition ==
    /\ pc = "sceneLoop"
    /\ currentTime - segStart >= Val(duration[i])
    /\ elapsedPainted' = Null
    /\ currentScale' = Null
    /\ source' = [source EXCEPT ![i] = IF @ = "playing" THEN "stopped" ELSE @]
    /\ loopExited' = [loopExited EXCEPT ![i] = "play"]
    /\ i' = i + 1
    /\ pc' = "scene"
    /\ UNCHANGED <<inputVars, playerVars, wrapVars, scheduled, chunkVars, recVars, ctxVars, currentTime, loadedImages,
                   audioBuffer, duration, usedFallback, framesPainted,
                   decodeStarted, segStart, canvas, progressLog, phaseLog,
                   resultVars>>

\* Mutant: the source is not stopped when the main loop breaks.
SceneLoopExitNoStop ==
    /\ pc = "sceneLoop"
    /\ currentTime - segStart >= Val(duration[i])
    /\ elapsedPainted' = Null
    /\ currentScale' = Null
    /\ source' = source
    /\ loopExited' = [loopExited EXCEPT ![i] = "play"]
    /\ IF Img(i + 1) # "undefined"
       THEN /\ segStart' = currentTime
            /\ phaseLog' = Append(phaseLog, <<"SceneTransition", i>>)
            /\ scheduled' = Append(scheduled, <<"transition", TransitionDuration>>)
            /\ i' = i
            /\ pc' = "transLoop"
       ELSE /\ segStart' = segStart
            /\ phaseLog' = phaseLog
            /\ scheduled' = scheduled
            /\ i' = i + 1
            /\ pc' = "scene"
    /\ UNCHANGED <<inputVars, playerVars, wrapVars, chunkVars, recVars, ctxVars, currentTime, loadedImages,
                   audioBuffer, duration, usedFallback, framesPainted,
                   decodeStarted, canvas, progressLog, resultVars>>

\* Mutant: the source is stopped only on the branch without a transition,
\* so it keeps playing through the transition.
SceneLoopExitStopInElse ==
    /\ pc = "sceneLoop"
    /\ currentTime - segStart >= Val(duration[i])
    /\ elapsedPainted' = Null
    /\ currentScale' = Null
    /\ loopExited' = [loopExited EXCEPT ![i] = "play"]
    /\ IF Img(i + 1) # "undefined"
       THEN /\ source' = source
            /\ segStart' = currentTime
            /\ phaseLog' = Append(phaseLog, <<"SceneTransition", i>>)
            /\ scheduled' = Append(scheduled, <<"transition", TransitionDuration>>)
            /\ i' = i
            /\ pc' = "transLoop"
       ELSE /\ source' = [source EXCEPT ![i] = IF @ = "playing" THEN "stopped" ELSE @]
            /\ segStart' = segStart
            /\ phaseLog' = phaseLog
            /\ scheduled' = scheduled
            /\ i' = i + 1
            /\ pc' = "scene"
    /\ UNCHANGED <<inputVars, playerVars, wrapVars, chunkVars, recVars, ctxVars, currentTime, loadedImages,
                   audioBuffer, duration, usedFallback, framesPainted,
                   decodeStarted, canvas, progressLog, resultVars>>

\* The main loop breaks (line 107-110); lines 138-146: stop the source and
\* enter the transition if there is a next image, else go to the next scene.
SceneLoopExit ==
    /\ pc = "sceneLoop"
    /\ Elapsed >= Val(duration[i])
    /\ elapsedPainted' = Null
    /\ currentScale' = Null
    /\ source' = [source EXCEPT ![i] = IF @ = "playing" THEN "stopped" ELSE @]
    /\ loopExited' = [loopExited EXCEPT ![i] = "play"]
    /\ IF NextImgExists(i)
       THEN /\ segStart' = currentTime
            /\ phaseLog' = Append(phaseLog, <<"SceneTransition", i>>)
            /\ scheduled' = Append(scheduled, <<"transition", TransitionDuration>>)
            /\ i' = i
            /\ pc' = "transLoop"
       ELSE /\ segStart' = segStart
            /\ phaseLog' = phaseLog
            /\ scheduled' = scheduled
            /\ i' = i + 1
            /\ pc' = "scene"
    /\ UNCHANGED <<inputVars, playerVars, wrapVars, chunkVars, recVars, ctxVars, currentTime, loadedImages,
                   audioBuffer, duration, usedFallback, framesPainted,
                   decodeStarted, canvas, progressLog, resultVars>>

\* Mutant: the transition frame is cleared, then the driver yields to the
\* frame timer before drawing the two images.
TransFrameYieldsAfterClear ==
    /\ pc = "transLoop"
    /\ ~(currentTime - segStart >= TransitionDuration)
    /\ canvas' = <<"cleared">>
    /\ elapsedPainted' = <<currentTime - segStart>>
    /\ currentScale' = Null
    /\ pc' = "transWait"
    /\ UNCHANGED <<phaseLog, resultVars>>
    /\ UNCHANGED <<inputVars, playerVars, wrapVars, scheduled, chunkVars, i, recVars, ctxVars, currentTime, loadedImages,
                   sceneVars, segStart, progressLog>>

\* One pass of the transition loop that paints, lines 149-162.
TransFrame ==
    /\ pc = "transLoop"
    /\ ~(Elapsed >= TransitionDuration)
    /\ LET r == DrawCinematicTransition(Img(i), Img(i + 1)) IN
       IF IsError(r)
       THEN /\ canvas' = <<"cleared">>
            /\ UNCHANGED frameVars
            /\ Throw(r)
       ELSE /\ canvas' = <<"transition", i>>
            /\ elapsedPainted' = <<Elapsed>>
            /\ currentScale' = Null
            /\ pc' = "transWait"
            /\ UNCHANGED <<phaseLog, resultVars>>
    /\ UNCHANGED <<inputVars, playerVars, wrapVars, scheduled, chunkVars, i, recVars, ctxVars, currentTime, loadedImages,
                   sceneVars, segStart, progressLog>>

\* Mutant: the recorder is stopped and started again between two scenes.
TransExitRestartsRecorder ==
    /\ pc = "transLoop"
    /\ currentTime - segStart >= TransitionDuration
    /\ elapsedPainted' = Null
    /\ currentScale' = Null
    /\ loopExited' = [loopExited EXCEPT ![i] = "trans"]
    /\ i' = i + 1
    /\ pc' = "scene"
    /\ stopCalls' = stopCalls + 1
    /\ startCalls' = startCalls + 1
    /\ UNCHANGED <<inputVars, playerVars, wrapVars, scheduled, chunkVars, recorderState, stopEventPending,
                   onstopInstalled, ctxVars, currentTime, loadedImages,
                   audioBuffer, duration, usedFallback, source, framesPainted,
                   decodeStarted, segStart, canvas, progressLog, phaseLog,
                   resultVars>>

\* Mutant: the break test of the transition loop has its operands the
\* wrong way round, start - now.
TransExitOperandsSwapped ==
    /\ pc = "transLoop"
    /\ segStart - currentTime >= TransitionDuration
    /\ elapsedPainted' = Null
    /\ currentScale' = Null
    /\ loopExited' = [loopExited EXCEPT ![i] = "trans"]
    /\ i' = i + 1
    /\ pc' = "scene"
    /\ UNCHANGED <<inputVars, playerVars, wrapVars, scheduled, chunkVars, recVars, ctxVars, currentTime, loadedImages,
                   audioBuffer, duration, usedFallback, source, framesPainted,
                   decodeStarted, segStart, canvas, progressLog, phaseLog,
                   resultVars>>

\* The transition loop breaks (line 153); the for loop goes to scene i + 1.
TransExit ==
    /\ pc = "transLoop"
    /\ Elapsed >= TransitionDuration
    /\ elapsedPainted' = Null
    /\ currentScale' = Null
    /\ loopExited' = [loopExited EXCEPT ![i] = "trans"]
    /\ i' = i + 1
    /\ pc' = "scene"
    /\ UNCHANGED <<inputVars, playerVars, wrapVars, scheduled, chunkVars, recVars, ctxVars, currentTime, loadedImages,
                   audioBuffer, duration, usedFallback, source, framesPainted,
                   decodeStarted, segStart, canvas, progressLog, phaseLog,
                   resultVars>>

\* await new Promise(r => setTimeout(r, FRAME_INTERVAL)) in the three loops.
FrameTimer ==
    /\ pc \in {"sceneWait", "transWait", "outroWait"}
    /\ currentTime' \in ClockAfterWait
    /\ pc' = CASE pc = "sceneWait" -> "sceneLoop"
               [] pc = "transWait" -> "transLoop"
               [] OTHER -> "outroLoop"
    /\ UNCHANGED <<inputVars, playerVars, wrapVars, frameVars, scheduled, chunkVars, i, recVars, ctxVars, loadedImages, sceneVars,
                   segStart, canvas, progressLog, phaseLog, resultVars>>

\* ------------------------------------------------------ outro, lines 167-193
OutroBegin ==
    /\ pc = "scene"
    /\ i >= n
    /\ progressLog' = Append(progressLog, OutroPercent)
    /\ phaseLog' = Append(phaseLog, <<"Outro">>)
    /\ segStart' = currentTime
    /\ scheduled' = Append(scheduled, <<"outro", FadeDuration>>)
    /\ pc' = "outroLoop"
    /\ UNCHANGED <<inputVars, playerVars, wrapVars, frameVars, chunkVars, i, recVars, ctxVars, currentTime, loadedImages,
                   sceneVars, canvas, resultVars>>

\* One pass of the fade loop that paints, lines 174-187; lastImg is
\* loadedImages[loadedImages.length - 1].
OutroFrame ==
    /\ pc = "outroLoop"
    /\ ~(Elapsed >= FadeDuration)
    /\ LET r == DrawKenBurns(Img(Len(loadedImages) - 1)) IN
       IF IsError(r)
       THEN /\ canvas' = canvas
            /\ UNCHANGED frameVars
            /\ Throw(r)
       ELSE /\ canvas' = <<"fade", r>>
            /\ elapsedPainted' = <<Elapsed>>
            /\ currentScale' = Null
            /\ pc' = "outroWait"
            /\ UNCHANGED <<phaseLog, resultVars>>
    /\ UNCHANGED <<inputVars, playerVars, wrapVars, scheduled, chunkVars, i, recVars, ctxVars, currentTime, loadedImages,
                   sceneVars, segStart, progressLog>>

\* Mutant: the render ends right after the final black frame, without the
\* hold.
OutroExitNoHold ==
    /\ pc = "outroLoop"
    /\ currentTime - segStart >= FadeDuration
    /\ elapsedPainted' = Null
    /\ currentScale' = Null
    /\ canvas' = <<"black">>
    /\ pc' = "finally"
    /\ UNCHANGED <<inputVars, playerVars, wrapVars, scheduled, chunkVars, i, recVars, ctxVars, currentTime, loadedImages,
                   sceneVars, segStart, progressLog, phaseLog, resultVars>>

\* Mutant: the final black frame is not painted; the last fade frame stays.
OutroExitNoBlackFrame ==
    /\ pc = "outroLoop"
    /\ currentTime - segStart >= FadeDuration
    /\ elapsedPainted' = Null
    /\ currentScale' = Null
    /\ canvas' = canvas
    /\ scheduled' = Append(scheduled, <<"hold", HoldDelay>>)
    /\ pc' = "holdWait"
    /\ UNCHANGED <<inputVars, playerVars, wrapVars, chunkVars, i, recVars, ctxVars, currentTime, loadedImages,
                   sceneVars, segStart, progressLog, phaseLog, resultVars>>

\* The fade loop breaks; lines 190-193: the final black frame and the hold.
OutroExit ==
    /\ pc = "outroLoop"
    /\ Elapsed >= FadeDuration
    /\ elapsedPainted' = Null
    /\ currentScale' = Null
    /\ canvas' = <<"black">>
    /\ scheduled' = Append(scheduled, <<"hold", HoldDelay>>)
    /\ pc' = "holdWait"
    /\ UNCHANGED <<inputVars, playerVars, wrapVars, chunkVars, i, recVars, ctxVars, currentTime, loadedImages,
                   sceneVars, segStart, progressLog, phaseLog, resultVars>>

\* The 200 ms timer of line 193 fires; the try block ends normally.
HoldTimer ==
    /\ pc = "holdWait"
    /\ currentTime' \in IF audioCtxState = "running"
                        THEN {currentTime + HoldDelay + dt : dt \in ClockSteps}
                        ELSE {currentTime}
    /\ pc' = "finally"
    /\ UNCHANGED <<inputVars, playerVars, wrapVars, frameVars, scheduled, chunkVars, i, recVars, ctxVars, loadedImages, sceneVars,
                   segStart, canvas, progressLog, phaseLog, resultVars>>

\* --------------------------------------------- finally and return, 195-207
\* recorder.stop(): a recording recorder becomes inactive and the stop event
\* is queued as a task; the call returns before the event is dispatched.
RecorderStop ==
    /\ stopCalls' = stopCalls + 1
    /\ recorderState' = "inactive"
    /\ stopEventPending' = (stopEventPending \/ recorderState = "recording")

\* Mutant: the finally block does not close the audio context.
AudioCtxCloseMissing == UNCHANGED <<closeCalls, audioCtxState>>

\* audioCtx.close()
AudioCtxClose ==
    /\ closeCalls' = closeCalls + 1
    /\ audioCtxState' = "closed"

\* Mutant: the cleanup is in the catch block, so it runs only after an
\* exception.
FinallyCleanupInCatch ==
    IF errorRaised # "none"
    THEN RecorderStop /\ AudioCtxClose
    ELSE UNCHANGED <<stopCalls, recorderState, stopEventPending, closeCalls,
                     audioCtxState>>

\* finally { recorder.stop(); audioCtx.close(); }
FinallyCleanup == RecorderStop /\ AudioCtxClose

\* Mutant: the catch block logs the error and does not rethrow it.
AfterFinallySwallowed ==
    /\ onstopInstalled' = TRUE
    /\ phaseLog' = Append(phaseLog, <<"Finalizing">>)
    /\ pc' = "stopWait"
    /\ UNCHANGED <<outcome, rejectedWith>>

\* Mutant: on the success path the driver yields once more before the code
\* that assigns recorder.onstop runs.
AfterFinallyYieldsBeforeOnstop ==
    IF errorRaised # "none"
    THEN /\ outcome' = "rejected"
         /\ rejectedWith' = errorRaised
         /\ onstopInstalled' = onstopInstalled
         /\ phaseLog' = phaseLog
         /\ pc' = "done"
    ELSE /\ onstopInstalled' = FALSE
         /\ phaseLog' = Append(phaseLog, <<"Finalizing">>)
         /\ pc' = "stopWait"
         /\ UNCHANGED <<outcome, rejectedWith>>

\* After the finally block: the rethrown error rejects the call; otherwise
\* line 203-207 runs, installing recorder.onstop inside the returned promise.
AfterFinally ==
    IF errorRaised # "none"
    THEN /\ outcome' = "rejected"
         /\ rejectedWith' = errorRaised
         /\ onstopInstalled' = onstopInstalled
         /\ phaseLog' = phaseLog
         /\ pc' = "done"
    ELSE /\ onstopInstalled' = TRUE
         /\ phaseLog' = Append(phaseLog, <<"Finalizing">>)
         /\ pc' = "stopWait"
         /\ UNCHANGED <<outcome, rejectedWith>>

\* recorder.stop() throws: the exception leaves the finally block at line
\* 199, replacing any error being rethrown, and rejects the call.
FinallyStopThrows ==
    /\ stopCalls' = stopCalls + 1
    /\ errorRaised' = "InvalidStateError"
    /\ outcome' = "rejected"
    /\ rejectedWith' = "InvalidStateError"
    /\ phaseLog' = IF errorRaised = "none" THEN Append(phaseLog, <<"Failed">>)
                   ELSE phaseLog
    /\ pc' = "done"
    /\ UNCHANGED <<recorderState, stopEventPending, onstopInstalled, ctxVars>>

Finally ==
    /\ pc = "finally"
    /\ IF stopThrows /\ recorderState = "inactive"
       THEN FinallyStopThrows
       ELSE FinallyCleanup /\ AfterFinally /\ errorRaised' = errorRaised
    /\ UNCHANGED <<inputVars, playerVars, wrapVars, frameVars, scheduled, chunkVars, i, startCalls, currentTime, loadedImages,
                   sceneVars, segStart, canvas, progressLog, blobs>>

\* The recorder fails while the driver is suspended inside the try block
\* (its tracks end, or the encoder reports an error): it becomes inactive
\* and its stop event is queued.
RecorderError ==
    /\ pc \in AwaitPcs \ {"stopWait"}
    /\ recorderState = "recording"
    /\ recorderState' = "inactive"
    /\ stopEventPending' = TRUE
    /\ UNCHANGED <<inputVars, playerVars, wrapVars, frameVars, scheduled, chunkVars, pc, i, startCalls, stopCalls,
                   onstopInstalled, ctxVars, currentTime, loadedImages,
                   sceneVars, segStart, canvas, progressLog, phaseLog,
                   resultVars>>

\* Mutant: the handler pushes every chunk, without the size test.
OnDataAvailableAlways(chs, size) == Append(chs, size)

\* recorder.ondataavailable, lines 43-45
OnDataAvailable(chs, size) == IF size > 0 THEN Append(chs, size) ELSE chs

\* The task queued by recorder.stop() runs while the driver is suspended:
\* it fires dataavailable with the data gathered (start() was given no
\* timeslice, so this is the only such event) and then stop; the onstop
\* handler builds the Blob from chunks and resolves the returned promise.
StopEvent ==
    /\ pc \in AwaitPcs
    /\ stopEventPending
    /\ stopEventPending' = FALSE
    /\ \E size \in ChunkSizes :
          /\ dataDelivered' = Append(dataDelivered, size)
          /\ chunks' = OnDataAvailable(chunks, size)
    /\ IF onstopInstalled /\ outcome = "pending"
       THEN /\ blobs' = blobs + 1
            /\ blobParts' = chunks'
            /\ outcome' = "resolved"
            /\ phaseLog' = Append(phaseLog, <<"Done">>)
            /\ pc' = "done"
       ELSE UNCHANGED <<blobs, blobParts, outcome, phaseLog, pc>>
    /\ UNCHANGED <<inputVars, playerVars, wrapVars, frameVars, scheduled, i, recorderState, startCalls, stopCalls,
                   onstopInstalled, ctxVars, currentTime, loadedImages,
                   sceneVars, segStart, canvas, progressLog, errorRaised,
                   rejectedWith>>

\* -------------------------------------------------------------------- Next
Next ==
    \/ RecorderStart
    \/ PreloadIter
    \/ ImageSettled
    \/ PreloadExit
    \/ ResumeSettled
    \/ SceneBegin
    \/ DecodeSettled
    \/ ScenePrepare
    \/ SceneFrame
    \/ SceneLoopExit
    \/ TransFrame
    \/ TransExit
    \/ FrameTimer
    \/ OutroBegin
    \/ OutroFrame
    \/ OutroExit
    \/ HoldTimer
    \/ Finally
    \/ StopEvent

Spec == Init /\ [][Next]_vars

\* The same driver on a platform whose decoder may never answer.
SpecStuck == InitStuck /\ [][Next]_vars

\* A frame timer fires after the audio clock has advanced.
FrameTimerAdvances == FrameTimer /\ currentTime' > currentTime

\* The same driver on a platform that keeps its promises: every awaited
\* load, decode, resume and timer settles and the recorder's stop event is
\* dispatched (weak fairness of Next: at each place of the driver the
\* steps enabled are those of that place), and the audio clock keeps
\* advancing, so that of the frame timers of a loop some fire at a later
\* reading (strong fairness: such a step is enabled at every other state
\* of the loop only).
\* The context is taken suspended, as one created before the page has
\* played any sound is, so that the clock reads 0 when the scenes begin.
InitLive == Init /\ audioCtxState = "suspended"

SpecLive ==
    InitLive /\ [][Next]_vars /\ WF_vars(Next) /\ SF_vars(FrameTimerAdvances)

\* The same driver with a recorder that may fail during the render.
NextRecorderFault ==
    \/ Next
    \/ RecorderError

SpecRecorderFault == InitRecorderFault /\ [][NextRecorderFault]_vars

\* ------------------------------------------- drawSubtitles, lines 280-340
\* Mutant: the allowed width is the whole canvas width.
MaxWidthNoPadding == w

\* const maxWidth = w - (padding * 4)
MaxWidth == w - (Padding * 4)

RECURSIVE Measure(_)
\* ctx.measureText(s).width
Measure(s) == IF s = <<>> THEN 0 ELSE charWidth[s[1]] + Measure(Tail(s))

\* Lines 291-293: words = text.split(''), lines = [], currentLine = words[0].
WrapStart ==
    /\ wpc = "start"
    /\ lines' = <<>>
    /\ currentLine' = IF Len(text) >= 1 THEN <<text[1]>> ELSE Undefined
    /\ wordIdx' = 1
    /\ wpc' = "loop"
    /\ UNCHANGED <<inputVars, playerVars, driverVars, text, w, charWidth>>

\* Mutant: on a break the code unit that did not fit is dropped.
WrapStepDropsWord ==
    /\ wpc = "loop"
    /\ wordIdx < Len(text)
    /\ LET word == text[wordIdx + 1] IN
       IF Measure(Append(currentLine, word)) < MaxWidth
       THEN /\ currentLine' = Append(currentLine, word)
            /\ lines' = lines
       ELSE /\ lines' = Append(lines, currentLine)
            /\ currentLine' = <<>>
    /\ wordIdx' = wordIdx + 1
    /\ UNCHANGED <<inputVars, playerVars, driverVars, text, w, charWidth, wpc>>

\* One iteration of the for loop, lines 295-304.
WrapStep ==
    /\ wpc = "loop"
    /\ wordIdx < Len(text)
    /\ LET word == text[wordIdx + 1] IN
       IF Measure(Append(currentLine, word)) < MaxWidth
       THEN /\ currentLine' = Append(currentLine, word)
            /\ lines' = lines
       ELSE /\ lines' = Append(lines, currentLine)
            /\ currentLine' = <<word>>
    /\ wordIdx' = wordIdx + 1
    /\ UNCHANGED <<inputVars, playerVars, driverVars, text, w, charWidth, wpc>>

\* Mutant: the last line is pushed only if it is a string.
WrapFinishSkipsUndefined ==
    /\ wpc = "loop"
    /\ wordIdx >= Len(text)
    /\ lines' = IF currentLine = Undefined THEN lines ELSE Append(lines, currentLine)
    /\ wpc' = "done"
    /\ UNCHANGED <<inputVars, playerVars, driverVars, text, w, charWidth, currentLine, wordIdx>>

\* The loop is over; line 305: lines.push(currentLine).
WrapFinish ==
    /\ wpc = "loop"
    /\ wordIdx >= Len(text)
    /\ lines' = Append(lines, currentLine)
    /\ wpc' = "done"
    /\ UNCHANGED <<inputVars, playerVars, driverVars, text, w, charWidth, currentLine, wordIdx>>

NextWrap ==
    \/ WrapStart
    \/ WrapStep
    \/ WrapFinish

SpecWrap == InitWrap /\ [][NextWrap]_vars

\* =================================================================== claims
\* The try block has been left (the finally block has run).
PastFinally == pc \in {"stopWait", "done"} /\ startCalls > 0

\* A narration source that still feeds the capture tap: started, not
\* stopped, and its context not closed.
Feeding(k) == source[k] = "playing" /\ audioCtxState # "closed"

\* C1: once the recorder has been started, on every exit from the try block
\* (normal completion, soft failures, an exception in any loop) both
\* recorder.stop() and audioCtx.close() have been executed, and so they have
\* whenever the call has settled.
C1_CleanupOnEveryExit ==
    (PastFinally \/ (startCalls > 0 /\ outcome # "pending"))
        => /\ stopCalls >= 1
           /\ closeCalls >= 1
           /\ recorderState = "inactive"
           /\ audioCtxState = "closed"

\* C1 witness: an exception thrown by a paint call in a transition loop has
\* rejected the call, and both cleanup calls were made.
C1_Witness ==
    /\ pc = "done"
    /\ outcome = "rejected"
    /\ errorRaised = "InvalidStateError"
    /\ \E k \in SceneIdx : loopExited[k] = "play" /\ framesPainted[k]
    /\ stopCalls = 1
    /\ closeCalls = 1

C3_ExactlyOneOutcome ==
    /\ blobs <= 1
    /\ outcome = "resolved" => (blobs = 1 /\ errorRaised = "none" /\ rejectedWith = "none")
    /\ outcome = "rejected" => (blobs = 0 /\ errorRaised # "none" /\ rejectedWith = errorRaised)
    /\ errorRaised # "none" => (blobs = 0 /\ outcome # "resolved")
    /\ outcome = "pending" => (blobs = 0 /\ rejectedWith = "none")
    /\ pc = "done" <=> outcome # "pending"

\* C3 witness: a story without scenes fails in the outro and the TypeError
\* reaches the caller, with no Blob.
C3_Witness ==
    /\ n = 0
    /\ outcome = "rejected"
    /\ rejectedWith = "TypeError"
    /\ blobs = 0

\* C4 (as claimed): when recorder.start() throws, the render is rejected
\* with no artifact and the audio context acquired before it is released.
C4_StartFailureReleases ==
    (pc = "done" /\ errorRaised = "StartError")
        => /\ outcome = "rejected"
           /\ blobs = 0
           /\ audioCtxState = "closed"

RECURSIVE ScenePhases(_)
\* The phases of scenes k, k+1, ..., n-1 of a successful render.
ScenePhases(k) ==
    IF k >= n THEN <<>>
    ELSE <<<<"ScenePlayback", k>>>>
         \o (IF k + 1 < n THEN <<<<"SceneTransition", k>>>> ELSE <<>>)
         \o ScenePhases(k + 1)

ExpectedPhases ==
    <<<<"Preloading">>>> \o ScenePhases(0) \o <<<<"Outro">>, <<"Finalizing">>, <<"Done">>>>

IsPrefix(s, t) == Len(s) <= Len(t) /\ SubSeq(t, 1, Len(s)) = s

\* The phases entered before a failure, if any.
PhasesBeforeFailure ==
    IF phaseLog # <<>> /\ phaseLog[Len(phaseLog)] = <<"Failed">>
    THEN SubSeq(phaseLog, 1, Len(phaseLog) - 1)
    ELSE phaseLog

\* C5: a render enters its phases in the order Preloading, then for each i
\* ScenePlayback(i) followed by SceneTransition(i) exactly when scene i+1
\* exists, then Outro, Finalizing, Done; a successful render has entered all
\* of them: n - 1 transitions, none for a single scene.
C5_PhaseOrder ==
    /\ IsPrefix(PhasesBeforeFailure, ExpectedPhases)
    /\ outcome = "resolved" =>
          /\ n >= 1
          /\ phaseLog = ExpectedPhases
          /\ Cardinality({p \in 1..Len(phaseLog) : phaseLog[p][1] = "SceneTransition"}) = n - 1

\* C5 witness: a two-scene story rendered successfully.
C5_Witness ==
    /\ outcome = "resolved"
    /\ phaseLog = << <<"Preloading">>, <<"ScenePlayback", 0>>, <<"SceneTransition", 0>>,
                     <<"ScenePlayback", 1>>, <<"Outro">>, <<"Finalizing">>, <<"Done">> >>

\* Scene k's playback has begun: its audio decode was requested, or its
\* source started, or one of its frames painted, or its phase entered.
SceneBegun(k) ==
    \/ decodeStarted[k]
    \/ source[k] # "none"
    \/ framesPainted[k]
    \/ duration[k] # Null
    \/ \E p \in 1..Len(phaseLog) : phaseLog[p] = <<"ScenePlayback", k>>

\* C6: scenes run strictly one after the other: scene k+1 has not begun
\* (no decode, no source, no frame) before scene k's transition loop has
\* exited, its playback loop if it has no transition.
C6_StrictlySequential ==
    \A k \in SceneIdx :
        (k + 1 < n /\ SceneBegun(k + 1))
            => loopExited[k] = (IF NextImgExists(k) THEN "trans" ELSE "play")

\* C6 witness: the second scene is playing its frames and narration after
\* the first scene's transition loop exited.
C6_Witness ==
    /\ n = 2
    /\ pc = "sceneWait"
    /\ i = 1
    /\ source[1] = "playing"
    /\ framesPainted[1]
    /\ loopExited[0] = "trans"

\* C7: the percent values passed to onProgress in one render never decrease.
C7_ProgressMonotone ==
    \A a, b \in 1..Len(progressLog) : a <= b => progressLog[a] <= progressLog[b]

\* C7 witness: a two-scene render has reported 0, 5, 10, 52.5 and 99.
C7_Witness ==
    /\ n = 2
    /\ progressLog = <<0, 10, 20, 105, 198>>

\* C8 (as claimed): when the render has resolved, the last percent value
\* passed to onProgress is 100.
C8_ProgressEndsAt100 ==
    outcome = "resolved"
        => /\ progressLog # <<>>
           /\ progressLog[Len(progressLog)] = 100 * ProgressDen

\* C9: a scene whose audio is present and decodes is displayed for the
\* decoded duration, not the fallback: that is the duration its loop was
\* given, and every frame the loop paints is painted before it.
C9_DurationFromAudio ==
    \A k \in SceneIdx :
        (Scene(k).audio.present /\ Scene(k).audio.decodable) =>
            /\ duration[k] # Null =>
                  (duration[k] = <<Scene(k).audio.seconds>> /\ ~usedFallback[k])
            /\ (pc = "sceneWait" /\ i = k) => Elapsed < Scene(k).audio.seconds

\* C9 witness: a scene with a decoded 2.0 s narration has played to its end.
C9_Witness ==
    \E k \in SceneIdx :
        /\ Scene(k).audio.decodable
        /\ duration[k] = <<20>>
        /\ framesPainted[k]
        /\ loopExited[k] # "none"

\* C10: a scene whose audio is absent, or present but undecodable, is
\* displayed for exactly the 3.0 s fallback.
C10_FallbackDuration ==
    \A k \in SceneIdx :
        (~Scene(k).audio.present \/ ~Scene(k).audio.decodable) =>
            /\ duration[k] # Null =>
                  (duration[k] = <<FallbackDuration>> /\ usedFallback[k])
            /\ (pc = "sceneWait" /\ i = k) => Elapsed < FallbackDuration
            /\ (pc = "sceneLoop" /\ i = k /\ ENABLED SceneLoopExit)
                  => Elapsed >= FallbackDuration

\* C10 witness: a scene whose audio bytes did not decode has played for the
\* fallback duration, silently.
C10_Witness ==
    \E k \in SceneIdx :
        /\ Scene(k).audio.present
        /\ ~Scene(k).audio.decodable
        /\ decodeStarted[k]
        /\ duration[k] = <<FallbackDuration>>
        /\ source[k] = "none"
        /\ loopExited[k] # "none"

\* C11 (as claimed): a scene image that fails to decode is a soft failure:
\* in a story with at least one scene no paint call throws for it, a
\* finished render has resolved with its artifact, and every frame painted
\* for a scene carries the subtitle overlay.
C11_BrokenImageIsSoft ==
    (startCalls > 0 /\ n >= 1) =>
        /\ errorRaised = "none"
        /\ pc = "done" => (outcome = "resolved" /\ blobs = 1)
        /\ canvas[1] = "scene" => canvas[4] = "subtitles"

\* C12: an audio decode failure of one scene does not abort the render.  No
\* source is started for that scene, the failure is not the error of the
\* render, and a render that ends without a paint error has run every
\* scene's loop to its exit and resolved with its artifact.
C12_DecodeFailureIsSoft ==
    (\E k \in SceneIdx : Scene(k).audio.present /\ ~Scene(k).audio.decodable) =>
        /\ \A k \in SceneIdx :
              (Scene(k).audio.present /\ ~Scene(k).audio.decodable)
                  => source[k] = "none"
        /\ errorRaised \in {"none", "StartError", "InvalidStateError"}
        /\ (pc = "done" /\ errorRaised = "none") =>
              /\ outcome = "resolved"
              /\ blobs = 1
              /\ \A k \in SceneIdx : loopExited[k] # "none"

\* C12 witness: the first of two scenes had undecodable audio; it played
\* silently, the second scene played with its narration, and the render
\* resolved.
C12_Witness ==
    /\ n = 2
    /\ Scene(0).audio.present
    /\ ~Scene(0).audio.decodable
    /\ decodeStarted[0]
    /\ source[0] = "none"
    /\ source[1] = "stopped"
    /\ outcome = "resolved"

\* C13: at every moment at most one narration source is started and not
\* yet stopped.
C13_OneNarrationAtATime ==
    Cardinality({k \in SceneIdx : source[k] = "playing"}) <= 1

\* C13 witness: the second scene's narration plays after the first one's
\* was stopped.
C13_Witness ==
    /\ n = 2
    /\ source[0] = "stopped"
    /\ source[1] = "playing"

\* C14: a scene's narration is stopped when its playback loop exits: no
\* source is playing once the loop has exited, so none plays while a
\* transition frame, an outro frame or the final black frame is painted.
C14_NoAudioOutsidePlayback ==
    /\ \A k \in SceneIdx : loopExited[k] # "none" => source[k] # "playing"
    /\ pc \in {"transLoop", "transWait", "outroLoop", "outroWait", "holdWait"}
          => \A k \in SceneIdx : source[k] # "playing"

\* C14 witness: a transition frame is on the canvas and the narration of
\* the scene before it has been stopped.
C14_Witness ==
    /\ pc = "transWait"
    /\ canvas = <<"transition", 0>>
    /\ source[0] = "stopped"

NonEmptyChunk(size) == size > 0

\* C15: the Blob is built only once the recorder's stop event has been
\* dispatched, which is after recorder.stop() and audioCtx.close() were
\* called; its parts are exactly the non-empty chunks the recorder delivered
\* up to that event, in the order of delivery.
C15_BlobAfterStopEvent ==
    /\ blobs = 0 => blobParts = <<>>
    /\ blobs > 0 =>
          /\ stopCalls >= 1
          /\ closeCalls >= 1
          /\ onstopInstalled
          /\ ~stopEventPending
          /\ dataDelivered # <<>>
          /\ blobParts = SelectSeq(dataDelivered, NonEmptyChunk)
    /\ (pc = "stopWait" /\ stopEventPending) => (blobs = 0 /\ outcome = "pending")

\* C15 witness: the stop task delivered a non-empty chunk and the Blob was
\* built from it.
C15_Witness ==
    /\ outcome = "resolved"
    /\ dataDelivered = <<7>>
    /\ blobParts = <<7>>

\* The empty case is reached too: the chunk delivered was empty and the
\* Blob has no parts.
C15_EmptyChunkReached ==
    /\ outcome = "resolved"
    /\ dataDelivered = <<0>>
    /\ blobParts = <<>>

\* Positions of the driver inside the try block, before the finally block.
TryBodyPcs == {"preload", "imgWait", "resumeWait", "scene", "decodeWait",
               "scenePrep", "sceneLoop", "sceneWait", "transLoop",
               "transWait", "outroLoop", "outroWait", "holdWait", "finally"}

\* C16: in a render whose recorder.start() succeeded, the recorder is
\* started once, before any progress report, image load or paint, and
\* stopped once, in the finally block; through preload, scenes, transitions
\* and outro it is recording and has not been stopped, and once it has been
\* stopped nothing more is painted.
C16_EncoderStartedAndStoppedOnce ==
    /\ [](/\ startCalls <= 1
          /\ stopCalls <= 1
          /\ (progressLog # <<>> \/ loadedImages # <<>> \/ canvas # <<"black">>)
                => startCalls = 1
          /\ pc \in TryBodyPcs =>
                (startCalls = 1 /\ stopCalls = 0 /\ recorderState = "recording")
          /\ stopCalls = 1 => pc \in {"stopWait", "done"}
          /\ (startCalls = 1 /\ pc \in {"stopWait", "done"}) =>
                (stopCalls = 1 /\ recorderState = "inactive"))
    /\ [][stopCalls >= 1 =>
            (canvas' = canvas /\ framesPainted' = framesPainted
             /\ startCalls' = startCalls /\ stopCalls' = stopCalls)]_vars

\* C16 witness: a two-scene render went through a transition between its
\* scenes and finished with one start and one stop.
C16_Witness ==
    /\ outcome = "resolved"
    /\ n = 2
    /\ loopExited[0] = "trans"
    /\ framesPainted[1]
    /\ startCalls = 1
    /\ stopCalls = 1

\* C17: a narration decode that never completes does not hang the render:
\* in every state the render either has ended or can take a step.  The
\* driver has no timer racing the decode (line 82 awaits it directly), so
\* under SpecStuck the state where it awaits a stuck decode has no step.
C17_StuckDecodeDoesNotHang == outcome # "pending" \/ ENABLED Next

\* The scene whose decode is stuck never gets a duration, fallback or not.
C17_StuckSceneGetsNoDuration ==
    (decodeStuck /\ pc = "decodeWait") => (duration[i] = Null /\ ~usedFallback[i])

\* A step that starts the narration source of the current scene.
NarrationStarts ==
    i \in SceneIdx /\ source[i] # "playing" /\ source'[i] = "playing"

\* A step that stops the narration source of the current scene.
NarrationStops ==
    i \in SceneIdx /\ source[i] = "playing" /\ source'[i] = "stopped"

\* C18: for every scene, the narration starts at the clock reading from
\* which the scene's frames are timed, and it is stopped no later than one
\* frame interval (1/FPS s, that is 10/FPS tenths of a second) after the
\* scene's elapsed time reached its duration.
C18_AudioVideoWithinOneFrame ==
    [][/\ NarrationStarts => segStart' = currentTime'
       /\ NarrationStops => FPS * (Elapsed - Val(duration[i])) <= 10]_vars

\* The first half holds by itself: source.start(0) and the reading of
\* sceneStartTime (lines 97-100) are in one synchronous run; and the stop
\* (line 139) is in the synchronous run whose loop test first reads
\* elapsed >= duration, whatever the reading is by then.
C18_SameClockReading ==
    [][/\ NarrationStarts => segStart' = currentTime'
       /\ NarrationStops => (pc = "sceneLoop" /\ Elapsed >= Val(duration[i]))]_vars

\* The state before a late stop: the loop test is about to read an elapsed
\* time that passed the narration's duration by more than a frame interval.
C18_LateReadingReached ==
    /\ pc = "sceneLoop"
    /\ source[i] = "playing"
    /\ FPS * (Elapsed - Val(duration[i])) > 10

RECURSIVE SceneSegments(_)
\* The segments of scenes k, ..., n-1 whose duration has been computed: the
\* scene's display, and a transition when a scene follows.
SceneSegments(k) ==
    IF k >= n \/ duration[k] = Null THEN <<>>
    ELSE <<<<"scene", Val(duration[k])>>>>
         \o (IF k + 1 < n THEN <<<<"transition", TransitionDuration>>>> ELSE <<>>)
         \o SceneSegments(k + 1)

ExpectedSchedule ==
    SceneSegments(0) \o <<<<"outro", FadeDuration>>, <<"hold", HoldDelay>>>>

RECURSIVE SumLengths(_)
SumLengths(segs) ==
    IF segs = <<>> THEN 0 ELSE segs[1][2] + SumLengths(Tail(segs))

RECURSIVE SumDurations(_)
\* The sum of the display durations of scenes k, ..., n-1.
SumDurations(k) == IF k >= n THEN 0 ELSE Val(duration[k]) + SumDurations(k + 1)

RECURSIVE Join(_)
\* The lines concatenated in order, with nothing between them.
Join(ls) == IF ls = <<>> THEN <<>> ELSE ls[1] \o Join(Tail(ls))

\* C20: for a narration of length >= 1, whatever the widths, the wrap ends
\* (every state before its end has a step), the lines made so far followed
\* by the current line are always the code units consumed so far, and at
\* the end the lines concatenated are the narration; a narration of one
\* code unit yields that one line, however wide the code unit is.
C20_WrapLossless ==
    Len(text) >= 1 =>
       /\ wpc # "done" => ENABLED NextWrap
       /\ wpc = "loop" =>
             Join(lines) \o currentLine = SubSeq(text, 1, wordIdx)
       /\ wpc = "done" =>
             /\ Join(lines) = text
             /\ Len(lines) >= 1
             /\ \A j \in 1..Len(lines) : lines[j] # <<>>
       /\ (wpc = "done" /\ Len(text) = 1) => lines = <<text>>

\* C20 witness: the narration is one code unit wider than the allowed width
\* and the wrap produced that one line.
C20_Witness ==
    /\ wpc = "done"
    /\ Len(text) = 1
    /\ charWidth[text[1]] > MaxWidth
    /\ lines = <<text>>

\* A narration was broken into more than one line.
C20_SeveralLinesReached ==
    /\ wpc = "done"
    /\ Len(lines) >= 2
    /\ Join(lines) = text

C21_AllUnbreakableReached ==
    /\ wpc = "done"
    /\ Len(text) >= 2
    /\ \A j \in 1..Len(text) : charWidth[text[j]] >= MaxWidth
    /\ Len(lines) = Len(text)

\* C22 (as claimed): every line the wrap produces for a narration of at
\* least one code unit fits within canvas width - 4 * padding as measured,
\* and the lines are the narration cut between code units.
C22_EveryLineFits ==
    (wpc = "done" /\ Len(text) >= 1) =>
       /\ \A j \in 1..Len(lines) : Measure(lines[j]) <= w - 4 * Padding
       /\ Join(lines) = text

\* C22 (amended): every line measures less than canvas width - 4 * padding,
\* except a line of a single code unit that is itself at least that wide;
\* the lines are the narration cut between code units.
C22_LinesFitUnlessOneWideUnit ==
    (wpc = "done" /\ Len(text) >= 1) =>
       /\ \A j \in 1..Len(lines) :
             \/ Measure(lines[j]) < w - 4 * Padding
             \/ /\ Len(lines[j]) = 1
                /\ charWidth[lines[j][1]] >= w - 4 * Padding
       /\ Join(lines) = text

\* C22 witness: a wrap ended with a line of two code units that fits and a
\* line of one code unit that does not.
C22_Witness ==
    /\ wpc = "done"
    /\ \E j \in 1..Len(lines) :
          Len(lines[j]) >= 2 /\ Measure(lines[j]) < w - 4 * Padding
    /\ \E j \in 1..Len(lines) :
          Len(lines[j]) = 1 /\ Measure(lines[j]) > w - 4 * Padding

\* C23: the Ken-Burns scale of every frame painted in a scene's playback
\* loop lies within [1.10, 1.25] (the scale is kept times 100 * duration);
\* the first frame of a scene has 1.10 for an even scene index and 1.25 for
\* an odd one, and from one frame of the scene to the next the scale does
\* not decrease for an even index and does not increase for an odd one.
C23_KenBurnsScaleRange ==
    /\ [](currentScale # Null =>
             /\ i \in SceneIdx
             /\ 110 * Val(duration[i]) <= Val(currentScale)
             /\ Val(currentScale) <= 125 * Val(duration[i]))
    /\ [][/\ (currentScale = Null /\ currentScale' # Null) =>
                Val(currentScale') = IF i % 2 = 0 THEN 110 * Val(duration[i])
                                                  ELSE 125 * Val(duration[i])
          /\ (currentScale # Null /\ currentScale' # Null) =>
                IF i % 2 = 0 THEN Val(currentScale') >= Val(currentScale)
                             ELSE Val(currentScale') <= Val(currentScale)]_vars

\* C23 witness: the scene of index 1 has painted a frame after its first,
\* at a scale below 1.25.
C23_Witness ==
    /\ pc = "sceneWait"
    /\ i = 1
    /\ Val(elapsedPainted) > 0
    /\ Val(currentScale) < 125 * Val(duration[i])
    /\ Val(currentScale) > 110 * Val(duration[i])

\* The scene of index 0 has zoomed in above 1.10.
C23_ZoomInReached ==
    /\ pc = "sceneWait"
    /\ i = 0
    /\ Val(currentScale) > 110 * Val(duration[i])

\* The image handle the loader leaves for scene k.
HandleOf(k) == IF Scene(k).imageOk THEN "ok" ELSE "broken"

\* C24: the handles loaded so far are those of the first scenes, one each
\* and in scene order, loaded or broken; and once the driver is past the
\* preload loop, hence before any scene's decode, narration or frame, there
\* is exactly one per scene.
C24_AllImagesBeforeFirstFrame ==
    /\ Len(loadedImages) <= n
    /\ \A k \in 0..(Len(loadedImages) - 1) : Img(k) = HandleOf(k)
    /\ (startCalls = 1 /\ pc \notin {"preload", "imgWait"}) =>
          Len(loadedImages) = n
    /\ (canvas # <<"black">>
        \/ \E k \in SceneIdx : framesPainted[k] \/ decodeStarted[k]
                               \/ source[k] # "none" \/ duration[k] # Null)
          => Len(loadedImages) = n

\* C24 witness: a frame of the first scene of two is on the canvas; its
\* image failed to load and the second scene's loaded, and both handles
\* are there.
C24_Witness ==
    /\ n = 2
    /\ pc = "sceneWait"
    /\ i = 0
    /\ framesPainted[0]
    /\ loadedImages = <<"broken", "ok">>

\* C25: every percent value passed to onProgress is within 0..100 and within
\* the band of the phase that passed it (values are numerators over
\* ProgressDen).  The preload passes the first n values, (j / n) * 10 for
\* image j, within 0..10; the scene of index k passes the next one,
\* 10 + (k / n) * 85, within 10..95; the outro passes 99.
C25_ProgressWithinBands ==
    /\ Len(progressLog) <= 2 * n + 1
    /\ \A j \in 1..Len(progressLog) :
          /\ 0 <= progressLog[j]
          /\ progressLog[j] <= 100 * ProgressDen
          /\ j <= n =>
                /\ progressLog[j] = 10 * (j - 1)
                /\ progressLog[j] <= 10 * ProgressDen
          /\ (n < j /\ j <= 2 * n) =>
                /\ progressLog[j] = 10 * ProgressDen + 85 * (j - n - 1)
                /\ 10 * ProgressDen <= progressLog[j]
                /\ progressLog[j] <= 95 * ProgressDen
          /\ j = 2 * n + 1 => progressLog[j] = 99 * ProgressDen
    /\ (pc \in {"preload", "imgWait"}) => Len(progressLog) <= n
    /\ (n > 0 /\ Len(progressLog) > n) =>
          \E j \in 1..Len(phaseLog) : phaseLog[j] = <<"ScenePlayback", 0>>
    /\ Len(progressLog) = 2 * n + 1 =>
          \E j \in 1..Len(phaseLog) : phaseLog[j] = <<"Outro">>

\* C25 witness: a two-scene render ended having reported 52.5 for its
\* second scene and 99 at the outro.
C25_Witness ==
    /\ outcome = "resolved"
    /\ n = 2
    /\ Len(progressLog) = 5
    /\ progressLog[4] = 105
    /\ progressLog[5] = 198

\* The driver is at or past the hold of a render that met no exception.
AfterBlackFrame ==
    /\ pc \in {"holdWait", "finally", "stopWait", "done"}
    /\ errorRaised = "none"
    /\ startCalls = 1

\* C26: on a render without exception the canvas holds the full black frame
\* from the end of the fade on; the recorder is still recording during the
\* hold, which lasts at least 0.2 s of the running audio clock, and is
\* stopped only after it; nothing is painted after the black frame.
C26_BlackFrameHeldBeforeStop ==
    /\ [](AfterBlackFrame =>
             /\ canvas = <<"black">>
             /\ scheduled # <<>>
             /\ scheduled[Len(scheduled)] = <<"hold", HoldDelay>>
             /\ pc = "holdWait" => (stopCalls = 0 /\ recorderState = "recording")
             /\ audioCtxState = "running" \/ closeCalls = 1)
    /\ [][/\ AfterBlackFrame => canvas' = canvas
          /\ (AfterBlackFrame /\ pc = "holdWait" /\ pc' # "holdWait") =>
                /\ pc' = "finally"
                /\ stopCalls' = 0
                /\ currentTime' >= currentTime + HoldDelay]_vars

\* C26 witness: a render resolved with the black frame on the canvas, after
\* scene and fade frames had been painted.
C26_Witness ==
    /\ outcome = "resolved"
    /\ canvas = <<"black">>
    /\ n >= 1
    /\ framesPainted[0]
    /\ stopCalls = 1

\* Positions of the driver from the first scene to the end of the hold.
TimelinePcs == {"scene", "decodeWait", "scenePrep", "sceneLoop", "sceneWait",
                "transLoop", "transWait", "outroLoop", "outroWait", "holdWait"}

\* C27: a context found suspended is resumed right after the preload: while
\* the driver awaits resume() no scene has begun, no narration source has
\* been started and no start reading has been taken, and when it goes on
\* the context is running; from the first scene to the hold the context is
\* running, and no source was ever started in a suspended context.
C27_ResumedBeforeFirstUse ==
    /\ [](/\ pc \in TimelinePcs => audioCtxState = "running"
          /\ audioCtxState = "suspended" =>
                /\ pc \in {"init", "preload", "imgWait", "resumeWait", "done"}
                /\ \A k \in SceneIdx :
                      /\ source[k] = "none"
                      /\ duration[k] = Null
                      /\ ~decodeStarted[k]
                      /\ ~framesPainted[k]
                /\ segStart = 0
                /\ currentTime = 0
                /\ scheduled = <<>>)
    /\ [][(pc = "resumeWait" /\ pc' # "resumeWait") =>
             /\ audioCtxState = "suspended"
             /\ audioCtxState' = "running"
             /\ pc' = "scene"
             /\ i' = 0]_vars

\* C27 witness: the preload of a two-scene story is over, the context was
\* found suspended and the driver awaits resume(); nothing has been started.
C27_Witness ==
    /\ pc = "resumeWait"
    /\ n = 2
    /\ Len(loadedImages) = 2
    /\ audioCtxState = "suspended"
    /\ \A k \in SceneIdx : source[k] = "none"

\* A canvas on which every drawing step of a frame has run.
CompleteFrame(c) ==
    \/ c = <<"black">>
    \/ c[1] = "scene" /\ c[4] = "subtitles"
    \/ c[1] = "transition"
    \/ c[1] = "fade"

\* C28: the canvas changes only in a paint step of the driver, never while
\* the driver is suspended; and whenever the driver is suspended with the
\* recorder recording, which is when the capture can sample the canvas,
\* the canvas holds a frame all of whose drawing steps have run.
C28_NoPartialFrameObserved ==
    /\ []((pc \in AwaitPcs /\ recorderState = "recording") => CompleteFrame(canvas))
    /\ [][canvas' # canvas =>
             /\ pc \in {"sceneLoop", "transLoop", "outroLoop"}
             /\ pc \notin AwaitPcs]_vars

\* C28 witness: the driver is suspended on the frame timer of a transition
\* with the whole transition frame on the canvas and the recorder recording.
C28_Witness ==
    /\ pc = "transWait"
    /\ recorderState = "recording"
    /\ canvas = <<"transition", 0>>

\* A paint that threw left the canvas cleared; by the next suspension the
\* recorder has been stopped.
C28_ClearedAfterThrowReached ==
    /\ canvas = <<"cleared">>
    /\ errorRaised # "none"
    /\ pc = "done"
    /\ recorderState = "inactive"

\* The length of the segment whose loop the driver is in.
SegmentLength ==
    CASE pc \in {"sceneLoop", "sceneWait"} -> Val(duration[i])
      [] pc \in {"transLoop", "transWait"} -> TransitionDuration
      [] OTHER -> FadeDuration

LoopPcs == {"sceneLoop", "sceneWait", "transLoop", "transWait",
            "outroLoop", "outroWait"}

\* C29: each scene, transition and outro loop takes its own start reading
\* when it is entered and keeps it; the clock does not go back; a frame is
\* painted at elapsed = now - start with 0 <= elapsed < the segment's
\* length, so that its progress fraction is in [0, 1), and the elapsed
\* values of successive frames of one segment do not decrease.
C29_ProgressFractionInUnitInterval ==
    /\ []((pc \in LoopPcs /\ elapsedPainted # Null) =>
             /\ 0 <= Val(elapsedPainted)
             /\ Val(elapsedPainted) < SegmentLength
             /\ Val(elapsedPainted) <= currentTime - segStart
             /\ pc \in {"sceneWait", "transWait", "outroWait"} =>
                   Val(elapsedPainted) = currentTime - segStart)
    /\ [][/\ currentTime' >= currentTime
          /\ segStart' # segStart =>
                /\ segStart' = currentTime'
                /\ pc' \in {"sceneLoop", "transLoop", "outroLoop"}
                /\ pc \notin {"sceneWait", "transWait", "outroWait"}
                /\ elapsedPainted' = Null
          /\ (elapsedPainted # Null /\ elapsedPainted' # Null) =>
                Val(elapsedPainted') >= Val(elapsedPainted)]_vars

\* C29 witness: the outro, whose start reading is later than the context's
\* start, has painted a frame after its first.
C29_Witness ==
    /\ pc = "outroWait"
    /\ segStart > 0
    /\ Val(elapsedPainted) > 0
    /\ Val(elapsedPainted) < FadeDuration

\* The error the paint call of the loop pass about to run throws, or
\* "none": the pass paints when its loop test does not break.
PaintFailure ==
    CASE pc = "sceneLoop" /\ currentTime - segStart < Val(duration[i])
            -> DrawKenBurns(Img(i))
      [] pc = "transLoop" /\ currentTime - segStart < TransitionDuration
            -> DrawCinematicTransition(Img(i), Img(i + 1))
      [] pc = "outroLoop" /\ currentTime - segStart < FadeDuration
            -> DrawKenBurns(Img(Len(loadedImages) - 1))
      [] OTHER -> "none"

\* C30: when a paint call of a frame throws, the step that makes the call
\* leaves the loop with that error raised; from then on nothing more is
\* painted and no progress is reported, and the render ends rejected with
\* the same error.
C30_PaintFailureSurfaces ==
    /\ [](/\ (errorRaised \notin {"none", "StartError"}) => pc \in {"finally", "done"}
          /\ (pc = "done" /\ errorRaised # "none") =>
                (outcome = "rejected" /\ rejectedWith = errorRaised /\ blobs = 0))
    /\ [][/\ IsError(PaintFailure) =>
                (errorRaised' = PaintFailure /\ pc' = "finally")
          /\ errorRaised # "none" =>
                /\ errorRaised' = errorRaised
                /\ canvas' = canvas
                /\ framesPainted' = framesPainted
                /\ progressLog' = progressLog]_vars

\* C30 witness: the first scene of two was painted, the transition to the
\* second, whose image is broken, threw, and the render was rejected with
\* that error; the last progress value is still the first scene's.
C30_Witness ==
    /\ n = 2
    /\ framesPainted[0]
    /\ ~framesPainted[1]
    /\ loopExited[0] = "play"
    /\ outcome = "rejected"
    /\ rejectedWith = "InvalidStateError"
    /\ progressLog = <<0, 10, 20>>

\* C31: on the success path recorder.onstop is assigned in the synchronous
\* run that called recorder.stop(), so whenever the stop event is queued
\* and the driver is suspended the handler is there; while the render
\* awaits the event, the event is queued and its dispatch is possible; and
\* the dispatch resolves the render.
C31_OnstopInstalledBeforeStopEvent ==
    /\ []((stopEventPending /\ pc \in AwaitPcs) => onstopInstalled)
    /\ [](pc = "stopWait" =>
             /\ stopEventPending
             /\ onstopInstalled
             /\ outcome = "pending"
             /\ ENABLED StopEvent)
    /\ [][(pc = "stopWait" /\ pc' # "stopWait") =>
             (outcome' = "resolved" /\ blobs' = 1 /\ pc' = "done")]_vars

\* C31 witness: the stop event was dispatched to the installed handler and
\* the render resolved.
C31_Witness ==
    /\ outcome = "resolved"
    /\ onstopInstalled
    /\ ~stopEventPending
    /\ stopCalls = 1
    /\ phaseLog[Len(phaseLog)] = <<"Done">>

\* C32: the audio context is closed even when recorder.stop() throws: once
\* a started render has ended, close() has been called and the context is
\* closed.  Under SpecRecorderFault the exception of recorder.stop() leaves
\* the finally block before audioCtx.close() (line 200) is reached.
C32_CloseDespiteStopFailure ==
    (pc = "done" /\ startCalls = 1) => (closeCalls = 1 /\ audioCtxState = "closed")

\* recorder.stop() threw and the render ended with the context not closed.
C32_StopThrewReached ==
    /\ pc = "done"
    /\ stopThrows
    /\ stopCalls = 1
    /\ rejectedWith = "InvalidStateError"
    /\ closeCalls = 0

\* C33: a render of a story with no scene never resolves and constructs no
\* Blob; it cannot stay pending without a step to take; and once it has
\* ended after a successful start it is rejected with the TypeError that
\* drawKenBurns threw in the outro on the missing last image, its phase log
\* ends with Failed, the recorder has been stopped and the context closed.
C33_ZeroScenesNeverResolves ==
    n = 0 =>
       /\ outcome # "resolved"
       /\ blobs = 0
       /\ outcome = "pending" => ENABLED Next
       /\ (pc = "done" /\ startCalls = 1) =>
             /\ outcome = "rejected"
             /\ rejectedWith = "TypeError"
             /\ phaseLog = <<<<"Preloading">>, <<"Outro">>, <<"Failed">>>>
             /\ stopCalls = 1
             /\ recorderState = "inactive"
             /\ closeCalls = 1
             /\ audioCtxState = "closed"

\* C33 witness: the render of the empty story was rejected after the outro
\* had reported 99.
C33_Witness ==
    /\ n = 0
    /\ pc = "done"
    /\ progressLog = <<99>>
    /\ rejectedWith = "TypeError"
    /\ stopCalls = 1
    /\ closeCalls = 1

\* C34: every scene whose playback loop has exited, to its transition or to
\* the next scene or the outro, has had a frame painted by that loop,
\* whatever its duration.  A decoded buffer of duration 0 makes the loop
\* test elapsed >= duration true on the first pass (line 107), before any
\* paint.
C34_EverySceneGetsAFrame ==
    \A k \in SceneIdx : loopExited[k] # "none" => framesPainted[k]

\* With a duration above 0 the first pass reads elapsed = 0 and paints.
C34_PositiveDurationGetsAFrame ==
    \A k \in SceneIdx :
        (loopExited[k] # "none" /\ Val(duration[k]) > 0) =>
            (framesPainted[k] /\ duration[k] \in {<<20>>, <<FallbackDuration>>})

\* A scene of duration 0 was left without a frame.
C34_ZeroDurationReached ==
    \E k \in SceneIdx :
        /\ duration[k] = <<0>>
        /\ loopExited[k] # "none"
        /\ ~framesPainted[k]

\* C35: on a platform that keeps its promises and whose audio clock keeps
\* advancing, every render ends, resolved or rejected, and so every loop
\* entered is left; and at the head of each loop the break is taken exactly
\* when the clock reading is at least the segment's length after the
\* loop's start reading, and a frame is painted exactly when it is not.
C35_RenderEnds ==
    /\ <>(outcome # "pending")
    /\ [](pc \in {"sceneLoop", "transLoop", "outroLoop"} =>
             /\ (ENABLED (SceneLoopExit \/ TransExit \/ OutroExit))
                   <=> (currentTime - segStart >= SegmentLength)
             /\ (ENABLED (SceneFrame \/ TransFrame \/ OutroFrame))
                   <=> (currentTime - segStart < SegmentLength))

\* C35 witness: a two-scene render has left its scene loops, its transition
\* loop and its outro loop and resolved; its second scene ran for the
\* fallback duration.
C35_Witness ==
    /\ outcome = "resolved"
    /\ n = 2
    /\ loopExited[0] = "trans"
    /\ loopExited[1] = "play"
    /\ duration[1] = <<FallbackDuration>>
    /\ currentTime >= FallbackDuration + TransitionDuration + FadeDuration + HoldDelay

\* ------------------------------------------------------------ StoryPlayer
\* The state values as the next render will read them.
PlayerState ==
    [currentIndex |-> currentIndex, isPlaying |-> isPlaying, isExporting |-> isExporting]

\* A state update has been queued and the component has not rendered again:
\* the handlers in the page still hold the values of the last render.
RenderPending == rendered # PlayerState

\* A preview source that was started and has neither been stopped nor ended.
Playing(id) == previewSource[id] = "playing"

\* stopAudio: stop the node held in sourceNodeRef, if there is one, and
\* clear the ref.  stop() on a node that already ended changes nothing; the
\* node it does stop gets its ended event queued.
StopAudio ==
    IF sourceNodeRef = Null
    THEN UNCHANGED refVars
    ELSE /\ previewSource' = [previewSource EXCEPT ![Val(sourceNodeRef)] =
                                 IF @ = "playing" THEN "stopped" ELSE @]
         /\ endedQueued' = IF Playing(Val(sourceNodeRef))
                           THEN endedQueued \cup {Val(sourceNodeRef)}
                           ELSE endedQueued
         /\ sourceNodeRef' = Null

\* playAudio up to its first await: currentScene is the scene of the render
\* the handler belongs to; a suspended context is resumed first, and
\* stopAudio() runs only after that await.
PlayAudio ==
    /\ nextPlay < MaxPlays
    /\ nextPlay' = nextPlay + 1
    /\ IF previewCtxState = "suspended"
       THEN /\ playAudioCalls' = [playAudioCalls EXCEPT ![nextPlay + 1] =
                                     [pc |-> "resumeWait", scene |-> rendered.currentIndex]]
            /\ UNCHANGED refVars
       ELSE /\ StopAudio
            /\ playAudioCalls' = [playAudioCalls EXCEPT ![nextPlay + 1] =
                                     [pc |-> "decodeWait", scene |-> rendered.currentIndex]]

\* togglePlay, on a click of the play button.  React renders the update of
\* one click before it dispatches the next.
TogglePlay ==
    /\ ~RenderPending
    /\ IF rendered.isPlaying
       THEN StopAudio /\ isPlaying' = FALSE /\ UNCHANGED <<nextPlay, playAudioCalls>>
       ELSE PlayAudio /\ UNCHANGED isPlaying
    /\ UNCHANGED <<inputVars, driverVars, wrapVars, currentIndex, rendered,
                   previewCtxState, exportVars>>

\* playAudio after await resume(): stopAudio(), then the decode is started.
PlayAudioResumed(id) ==
    /\ playAudioCalls[id].pc = "resumeWait"
    /\ previewCtxState' = "running"
    /\ StopAudio
    /\ playAudioCalls' = [playAudioCalls EXCEPT ![id].pc = "decodeWait"]
    /\ UNCHANGED <<inputVars, driverVars, wrapVars, currentIndex, isPlaying,
                   rendered, nextPlay, exportVars>>

\* playAudio after await decodeAudioData(): the source is created, stored in
\* sourceNodeRef and started, and isPlaying is set; a decode that failed
\* only clears isPlaying.
PlayAudioDecoded(id) ==
    /\ playAudioCalls[id].pc = "decodeWait"
    /\ playAudioCalls' = [playAudioCalls EXCEPT ![id].pc = "done"]
    /\ \E ok \in BOOLEAN :
          IF ok
          THEN /\ sourceNodeRef' = <<id>>
               /\ previewSource' = [previewSource EXCEPT ![id] = "playing"]
               /\ isPlaying' = TRUE
               /\ UNCHANGED endedQueued
          ELSE /\ isPlaying' = FALSE
               /\ UNCHANGED refVars
    /\ UNCHANGED <<inputVars, driverVars, wrapVars, currentIndex, rendered,
                   previewCtxState, nextPlay, exportVars>>

\* A playing source reaches the end of its buffer: its ended event is queued.
SourceEnds(id) ==
    /\ Playing(id)
    /\ previewSource' = [previewSource EXCEPT ![id] = "ended"]
    /\ endedQueued' = endedQueued \cup {id}
    /\ UNCHANGED <<inputVars, driverVars, wrapVars, currentIndex, isPlaying,
                   rendered, sourceNodeRef, previewCtxState, playAudioCalls,
                   nextPlay, exportVars>>

\* source.onended = () => setIsPlaying(false), for a source that ended or
\* was stopped.
OnEnded(id) ==
    /\ id \in endedQueued
    /\ endedQueued' = endedQueued \ {id}
    /\ isPlaying' = FALSE
    /\ UNCHANGED <<inputVars, driverVars, wrapVars, currentIndex, rendered,
                   sourceNodeRef, previewSource, previewCtxState,
                   playAudioCalls, nextPlay, exportVars>>

\* handleNext / handlePrev: the test reads the rendered currentIndex (the
\* button is disabled on the same test), the update is applied to the state.
HandleNext ==
    /\ ~RenderPending
    /\ rendered.currentIndex < LastIndex
    /\ currentIndex' = currentIndex + 1
    /\ UNCHANGED <<inputVars, driverVars, wrapVars, isPlaying, rendered,
                   previewCtxState, playAudioCalls, nextPlay, refVars, exportVars>>

HandlePrev ==
    /\ ~RenderPending
    /\ rendered.currentIndex > 0
    /\ currentIndex' = currentIndex - 1
    /\ UNCHANGED <<inputVars, driverVars, wrapVars, isPlaying, rendered,
                   previewCtxState, playAudioCalls, nextPlay, refVars, exportVars>>

\* The component renders again: its handlers now hold the current state
\* values.  When currentIndex changed, the effect on [currentIndex] runs:
\* stopAudio(); setIsPlaying(false).
Render ==
    /\ RenderPending
    /\ rendered' = PlayerState
    /\ IF rendered.currentIndex # currentIndex
       THEN StopAudio /\ isPlaying' = FALSE
       ELSE UNCHANGED <<refVars, isPlaying>>
    /\ UNCHANGED <<inputVars, driverVars, wrapVars, currentIndex,
                   previewCtxState, playAudioCalls, nextPlay, exportVars>>

\* handleExportVideo up to its await, on a click of an export button: the
\* button is disabled, and the handler returns at once, when the rendered
\* isExporting is true; otherwise isExporting is set, the preview audio is
\* stopped and generateStoryVideo is called.
HandleExportVideo ==
    /\ ~rendered.isExporting
    /\ exportClicks < MaxExports
    /\ exportClicks' = exportClicks + 1
    /\ isExporting' = TRUE
    /\ StopAudio
    /\ exportsInFlight' = exportsInFlight + 1
    /\ UNCHANGED <<inputVars, driverVars, wrapVars, currentIndex, isPlaying,
                   rendered, previewCtxState, playAudioCalls, nextPlay, downloads>>

ExportClick == ~RenderPending /\ HandleExportVideo

\* A second call of the handler of the same render, before the component
\* has rendered again (a click dispatched from script in the same task).
ExportClickBeforeRender == RenderPending /\ HandleExportVideo

\* await generateStoryVideo() settles: the blob is downloaded, or the error
\* is reported; the finally block clears isExporting.
ExportSettles ==
    /\ exportsInFlight > 0
    /\ exportsInFlight' = exportsInFlight - 1
    /\ \E ok \in BOOLEAN : downloads' = IF ok THEN downloads + 1 ELSE downloads
    /\ isExporting' = FALSE
    /\ UNCHANGED <<inputVars, driverVars, wrapVars, currentIndex, isPlaying,
                   rendered, previewCtxState, playAudioCalls, nextPlay,
                   refVars, exportClicks>>

NextPlayer ==
    \/ TogglePlay
    \/ \E id \in PlayIds : PlayAudioResumed(id)
    \/ \E id \in PlayIds : PlayAudioDecoded(id)
    \/ \E id \in PlayIds : SourceEnds(id)
    \/ \E id \in PlayIds : OnEnded(id)
    \/ HandleNext
    \/ HandlePrev
    \/ Render
    \/ ExportClick
    \/ ExportSettles

SpecPlayer == InitPlayer /\ [][NextPlayer]_vars

\* The same component when a handler can be called again before the
\* component has rendered.
NextPlayerBeforeRender == NextPlayer \/ ExportClickBeforeRender

SpecPlayerBeforeRender == InitPlayer /\ [][NextPlayerBeforeRender]_vars

\* C36: at most one generateStoryVideo invocation is in flight at any time,
\* also when two export clicks are handled before the component renders
\* again.
C36_AtMostOneInFlight == exportsInFlight <= 1

\* The other half of C36: isExporting is false when an export has ended,
\* whether it succeeded or failed.
C36_ExportEndsClearFlag ==
    [][exportsInFlight' < exportsInFlight => ~isExporting']_vars

\* Two export clicks were handled before the component rendered again.
C36_SecondClickBeforeRender ==
    exportClicks = 2 /\ RenderPending /\ ~rendered.isExporting

\* C37: at most one preview source is started and not stopped at any time,
\* and every playing source is the one held in sourceNodeRef.
C37_OnePlayingSourceHeldInRef ==
    /\ Cardinality({id \in PlayIds : Playing(id)}) <= 1
    /\ \A id \in PlayIds : Playing(id) => sourceNodeRef = <<id>>

\* C38: once the scene index has changed and the component has rendered, no
\* narration of another scene than the displayed one is playing.
C38_NoNarrationOfPreviousScene ==
    ~RenderPending =>
        \A id \in PlayIds : Playing(id) => playAudioCalls[id].scene = currentIndex

\* No ended event is queued, no render is due and no playAudio call is
\* awaiting.
PlayerQuiescent ==
    /\ endedQueued = {}
    /\ ~RenderPending
    /\ \A id \in PlayIds : playAudioCalls[id].pc \in {"none", "done"}

\* The first half of C39: with no event pending, isPlaying is true only
\* while the source held in sourceNodeRef is playing.
C39_IsPlayingOnlyWhilePlaying ==
    (PlayerQuiescent /\ isPlaying) =>
        (sourceNodeRef # Null /\ Playing(Val(sourceNodeRef)))

\* C39: the onended callback of a source that was stopped or replaced never
\* sets isPlaying to false while a newer source is playing.
C39_StaleOnEndedKeepsFlag ==
    [][\A id \in PlayIds :
          (id \in endedQueued /\ id \notin endedQueued'
            /\ \E newer \in PlayIds : newer > id /\ Playing(newer))
          => isPlaying' = isPlaying]_vars
====
